---- MODULE Spec2Model ----
(***************************************************************************)
(* Model of the component runtime src/src/lib/teact/teact.ts: the          *)
(* component instances and their lifecycle (createComponentInstance,       *)
(* renderComponent, mountComponent, unmountComponent, helpGc,              *)
(* prepareComponentForFrame, forceUpdateComponent) and the frame           *)
(* scheduler (runUpdatePassOnRaf, runImmediateEffects).                    *)
(*                                                                         *)
(* The program is single-threaded and callback driven.  A state of the     *)
(* model is a point at which user code runs: outside every handler, or     *)
(* inside the callback (effect, cleanup, render function, onUpdate) that   *)
(* a handler has just invoked.  A scheduler action runs the handler's own  *)
(* code up to and including its next callback; the calls user code makes   *)
(* into the runtime are the other actions.                                 *)
(***************************************************************************)
EXTENDS Integers, Sequences, FiniteSets, TLC

\* ------------------------------------------------------------------ bounds
MaxInst == 2        \* instances that createComponentInstance may allocate
MaxKeys == 1        \* keys under which callbacks are enqueued directly
MaxPending == 2     \* callbacks waiting in the four queues together
MaxStateHooks == 2  \* useState calls of the render function "Stateful"

\* ------------------------------------------------------------------ values
Undefined == "undefined"

\* Render outputs: two distinct object references.
RenderValues == {"X", "Y"}

Ids == 1 .. MaxInst

\* ------------------------------------------------------- sequence helpers
Range(q) == {q[k] : k \in DOMAIN q}

SeqMap(Op(_), q) == [k \in DOMAIN q |-> Op(q[k])]

\* ------------------------------------------------------------ the builder
\* isEmptyPlaceholder: false, null and undefined.
isEmptyPlaceholder(child) == child \in {"false", "null", Undefined}

\* children.slice(0, n)
Slice(children, n) == SubSeq(children, 1, n)

\* The index at which dropEmptyTail's loop stops, as a length: the position of
\* the last child that is no placeholder, 0 when there is none.
RECURSIVE LastKept(_, _)
LastKept(children, i) ==
    IF i = 0 THEN 0
    ELSE IF ~isEmptyPlaceholder(children[i]) THEN i
    ELSE LastKept(children, i - 1)

\* Mutant of dropEmptyTail: a list of placeholders keeps its first one
\* whatever noEmpty is.
dropEmptyTail_keepsOne(children, noEmpty) ==
    LET i == LastKept(children, Len(children)) IN
    IF i = Len(children) THEN children
    ELSE IF i = 0 THEN Slice(children, 1)
    ELSE Slice(children, i)

dropEmptyTail(children, noEmpty) ==
    LET i == LastKept(children, Len(children)) IN
    IF i = Len(children) THEN children
    ELSE IF i = 0 /\ noEmpty THEN Slice(children, 1)
    ELSE Slice(children, i)

buildChildElement(child) ==
    IF isEmptyPlaceholder(child) THEN [type |-> "Empty", value |-> Undefined]
    ELSE [type |-> "Node", value |-> child]

\* Array.isArray(newRenderedValue) ? newRenderedValue : [newRenderedValue];
\* the render outputs of the model are single values.
ChildrenOf(renderedValue) == <<renderedValue>>

\* An element of a component: ref is the identity of the object (0: no
\* object), children its child elements.  Two element objects of one instance
\* are compared only across one build, so ref alternates between 1 and 2.
NoElement == [ref |-> 0, children |-> <<>>]

FreshRef(ref) == IF ref = 1 THEN 2 ELSE 1

buildComponentElement(oldRef, children) ==
    [ref |-> FreshRef(oldRef),
     children |-> SeqMap(buildChildElement, dropEmptyTail(children, TRUE))]

\* -------------------------------------------------------------- the state
VARIABLES
    lastComponentId,            \* let lastComponentId
    instances,                  \* the ComponentInstance objects, by id
    instancesPendingUpdate,     \* Set<ComponentInstance>, as a set of ids
    idsToExcludeFromUpdate,     \* Set<number>
    pendingEffects,             \* Map<string, Effect>, in insertion order
    pendingCleanups,
    pendingLayoutEffects,
    pendingLayoutCleanups,
    areImmediateEffectsPending,
    waiting,                    \* throttleWith: a read-phase callback is requested
    pc,                         \* where the frame flush stands
    cur,                        \* what is left of the collection being iterated
    instancesToUpdate,          \* the batch the write-phase callback closes over
    obs,                        \* what the last call did (its observable outcome)
    hist                        \* history: what the frame pass has done so far

vars == <<lastComponentId, instances, instancesPendingUpdate, idsToExcludeFromUpdate,
          pendingEffects, pendingCleanups, pendingLayoutEffects, pendingLayoutCleanups,
          areImmediateEffectsPending, waiting, pc, cur, instancesToUpdate, obs, hist>>

\* The state as one value, so that the functions of the source are operators
\* from state to state.
State ==
    [lastComponentId |-> lastComponentId, instances |-> instances,
     instancesPendingUpdate |-> instancesPendingUpdate,
     idsToExcludeFromUpdate |-> idsToExcludeFromUpdate,
     pendingEffects |-> pendingEffects, pendingCleanups |-> pendingCleanups,
     pendingLayoutEffects |-> pendingLayoutEffects,
     pendingLayoutCleanups |-> pendingLayoutCleanups,
     areImmediateEffectsPending |-> areImmediateEffectsPending,
     waiting |-> waiting, pc |-> pc, cur |-> cur,
     instancesToUpdate |-> instancesToUpdate, obs |-> obs, hist |-> hist]

\* Object identities are observable through === alone, and an element object
\* is compared with its successor only inside the call that builds it: between
\* calls the element of an instance is named 1.
Canonical(insts) ==
    [i \in DOMAIN insts |->
        IF insts[i].element.ref = 0 THEN insts[i]
        ELSE [insts[i] EXCEPT !.element.ref = 1]]

\* The observation of the call on an instance ends with the element it left.
Observed(s) ==
    IF s.obs.id = 0 THEN s.obs
    ELSE [s.obs EXCEPT !.after = s.instances[s.obs.id].element]

Becomes(s) ==
    /\ lastComponentId' = s.lastComponentId
    /\ instances' = Canonical(s.instances)
    /\ instancesPendingUpdate' = s.instancesPendingUpdate
    /\ idsToExcludeFromUpdate' = s.idsToExcludeFromUpdate
    /\ pendingEffects' = s.pendingEffects
    /\ pendingCleanups' = s.pendingCleanups
    /\ pendingLayoutEffects' = s.pendingLayoutEffects
    /\ pendingLayoutCleanups' = s.pendingLayoutCleanups
    /\ areImmediateEffectsPending' = s.areImmediateEffectsPending
    /\ waiting' = s.waiting
    /\ pc' = s.pc
    /\ cur' = s.cur
    /\ instancesToUpdate' = s.instancesToUpdate
    /\ obs' = Observed(s)
    /\ hist' = s.hist

\* ---------------------------------------------------------- observations
\* What one call into the runtime did: the error entries naming a component it
\* reported, the elements it built, the onUpdate calls it made, the cleanups
\* and release callbacks it invoked (by effect slot), whether a fault left it,
\* and for a call of the builder its arguments and the value it returned.
\* `run` is what the render function did when the call reached it.
NoRun == [throws |-> FALSE, value |-> "X", deps |-> <<>>]

NoObs ==
    [op |-> "none", id |-> 0, errors |-> 0, built |-> 0, onUpdate |-> 0,
     rendered |-> FALSE, run |-> NoRun, scheduled |-> {}, cleanups |-> <<>>,
     releases |-> <<>>, threw |-> FALSE, ran |-> <<>>,
     before |-> NoElement, after |-> NoElement,
     args |-> <<>>, returned |-> <<>>]

Observe(s, op, i) ==
    [s EXCEPT !.obs = [NoObs EXCEPT !.op = op, !.id = i,
                                    !.before = s.instances[i].element]]

\* ------------------------------------------------------------- instances
\* A slot of the table that createComponentInstance has not filled yet.
NoInstance ==
    [isMounted |-> FALSE, hooks |-> FALSE, Component |-> Undefined,
     renderedValue |-> Undefined, element |-> NoElement, onUpdate |-> FALSE,
     state |-> <<>>, effects |-> <<>>]

Exists(s, i) == i \in 1 .. s.lastComponentId

createComponentInstance(s, Component) ==
    LET id == s.lastComponentId + 1 IN
    [s EXCEPT !.lastComponentId = id,
              !.instances[id] =
                  [isMounted |-> FALSE, hooks |-> TRUE, Component |-> Component,
                   renderedValue |-> Undefined,
                   element |-> buildComponentElement(0, <<>>),
                   onUpdate |-> FALSE, state |-> <<>>, effects |-> <<>>]]

\* ------------------------------------------------------ render functions
\* The render functions of the model differ in the hooks they call, always in
\* the same order: StateHooks(C) calls of useState, then one useEffect or
\* useLayoutEffect call per entry of EffectHooks(C).
StateHooks(C) == IF C = "Stateful" THEN MaxStateHooks ELSE 0

EffectHooks(C) ==
    CASE C = "Effectful" -> <<"effect", "layout">>
      [] C = "Subscriber" -> <<"effect", "effect">>
      [] OTHER -> <<>>

\* The effects of "Subscriber" depend on signals: their records hold a
\* releaseSignals callback.
SubscribesToSignals(C) == C = "Subscriber"

\* The values a state slot takes; useState(0) is the initial one.
StateValues == {0, 1, 2}
InitialState == 0

\* Dependency lists of one effect: a list of two values out of 1 and 2, or
\* NoDeps for an undefined list.
DepLists == {<<1, 1>>, <<1, 2>>, <<2, 1>>}
NoDeps == <<0>>

\* The cleanup an effect run returned is named by the dependencies of that run;
\* NoCleanup is an undefined cleanup field.
NoCleanup == <<>>

\* ------------------------------------------------------------- history
\* batch: the instances the current pass took from the pending set;
\* group: the group of work the current pass has run last ("none" before its
\* first); visits: the prepare and update
\* calls of the write phase, in order; latest: per queue, the callback most
\* recently enqueued under each key since the queue was last swapped out;
\* draining: the same for the collection being iterated; ran: the entries
\* the iteration has run; requested: per state slot, the value most recently
\* given to its setter since the instance was last prepared; applied: the
\* requests the prepare loop of the current pass has taken; reentered: the
\* effect keys a render has scheduled, since the pass began, from inside a
\* callback of the cleanup loop that precedes the loop of their effect;
\* cleaned: the effect keys whose cleanup the pass has executed; measures and
\* mutations: the callbacks requested from requestMeasure and from
\* requestMutation that the frame has not invoked yet; renders: the
\* instances renderComponent was called on since the pass began; faulted:
\* the instances whose forced update of the current pass ran the rescue of
\* safeExec; refreshed: the instances renderComponent was called on after the
\* prepare loop of the current pass had visited them.
QueueNames == {"cleanups", "effects", "layoutCleanups", "layoutEffects"}

NoHist ==
    [group |-> "none", visits |-> <<>>, batch |-> {},
     latest |-> [q \in QueueNames |-> {}],
     draining |-> {}, ran |-> <<>>, requested |-> {}, applied |-> {},
     reentered |-> {}, cleaned |-> {}, measures |-> 0, mutations |-> 0,
     renders |-> {}, faulted |-> {}, refreshed |-> {}]

NoteGroup(s, g) == [s EXCEPT !.hist.group = g]

NoteSwap(s, q) ==
    [s EXCEPT !.hist.draining = s.hist.latest[q], !.hist.latest[q] = {},
              !.hist.ran = <<>>]

\* ------------------------------------------------------------ the queues
\* A queue is a Map in insertion order: a sequence of [key, cb] with distinct
\* keys.  A callback is named by what made it: kind "raw" is a callback some
\* caller enqueued directly, "effect" and "cleanup" are the closures of effect
\* slot `slot` of instance `inst`, made by the render that saw `tag`.
Callback(kind, inst, slot, tag) == [kind |-> kind, inst |-> inst, slot |-> slot, tag |-> tag]

HasKey(q, key) == \E k \in DOMAIN q : q[k].key = key

\* Map.prototype.set: a known key keeps its place and takes the new value.
MapSet(q, key, cb) ==
    IF HasKey(q, key)
    THEN [k \in DOMAIN q |-> IF q[k].key = key THEN [key |-> key, cb |-> cb] ELSE q[k]]
    ELSE Append(q, [key |-> key, cb |-> cb])

\* Mutant of runUpdatePassOnRaf: every call requests a read-phase callback.
runUpdatePassOnRaf_unthrottled(s) ==
    [s EXCEPT !.waiting = TRUE, !.hist.measures = @ + 1]

\* throttleWith(requestMeasure, fn): the first call requests the read-phase
\* callback, the calls until it runs change nothing.
runUpdatePassOnRaf(s) ==
    IF s.waiting THEN s
    ELSE [s EXCEPT !.waiting = TRUE, !.hist.measures = @ + 1]

enqueueUpdate(s, i) ==
    runUpdatePassOnRaf([s EXCEPT !.instancesPendingUpdate = @ \cup {i}])

\* History: the callback most recently enqueued under each key of queue q,
\* and whether it replaced another one.
NoteEnqueued(s, q, key, cb) ==
    [s EXCEPT !.hist.latest[q] =
         {e \in @ : e.key # key}
             \cup {[key |-> key, cb |-> cb, replaced |-> \E e \in @ : e.key = key]}]

enqueueEffect(s, key, cb) ==
    runUpdatePassOnRaf(NoteEnqueued(
        [s EXCEPT !.pendingEffects = MapSet(@, key, cb)], "effects", key, cb))

enqueueCleanup(s, key, cb) ==
    runUpdatePassOnRaf(NoteEnqueued(
        [s EXCEPT !.pendingCleanups = MapSet(@, key, cb)], "cleanups", key, cb))

enqueueLayoutEffect(s, key, cb) ==
    runUpdatePassOnRaf(NoteEnqueued(
        [s EXCEPT !.pendingLayoutEffects = MapSet(@, key, cb)], "layoutEffects", key, cb))

enqueueLayoutCleanup(s, key, cb) ==
    runUpdatePassOnRaf(NoteEnqueued(
        [s EXCEPT !.pendingLayoutCleanups = MapSet(@, key, cb)], "layoutCleanups", key, cb))

\* ---------------------------------------------------------------- hooks
\* useState at cursor c: the first call makes the record.
useState(s, i, c) ==
    IF c <= Len(s.instances[i].state) THEN s
    ELSE [s EXCEPT !.instances[i].state =
              Append(@, [value |-> InitialState, nextValue |-> InitialState])]

\* History: the setter of slot c of instance i was called with v.
NoteRequested(s, i, c, v) ==
    [s EXCEPT !.hist.requested =
         {e \in @ : e.inst # i \/ e.slot # c}
             \cup {[inst |-> i, slot |-> c, value |-> v,
                    replaced |-> \E e \in @ : e.inst = i /\ e.slot = c]}]

\* The state setter: stage the value, enqueue the instance.
setState(s, i, c, v) ==
    enqueueUpdate(NoteRequested([s EXCEPT !.instances[i].state[c].nextValue = v],
                                i, c, v), i)

\* dependencies.some((dependency, i) => dependency !== stored[i])
DepsDiffer(new, old) == \E k \in DOMAIN new : k \notin DOMAIN old \/ new[k] # old[k]

\* Whether useEffect schedules the effect of a render with dependencies `deps`.
MustSchedule(hooks, c, deps) ==
    \/ c > Len(hooks)
    \/ deps = NoDeps
    \/ hooks[c].dependencies = NoDeps
    \/ DepsDiffer(deps, hooks[c].dependencies)

schedule(s, i, c, kind, deps) ==
    LET key == <<i, c>>
        s1 == IF kind = "layout"
              THEN enqueueLayoutEffect(
                       enqueueLayoutCleanup(s, key, Callback("cleanup", i, c, deps)),
                       key, Callback("effect", i, c, deps))
              ELSE enqueueEffect(
                       enqueueCleanup(s, key, Callback("cleanup", i, c, deps)),
                       key, Callback("effect", i, c, deps))
        inCleanupLoop == s.pc = (IF kind = "layout" THEN "layoutCleanups" ELSE "cleanups")
    IN [s1 EXCEPT !.obs.scheduled = @ \cup {c},
                  !.hist.reentered = IF inCleanupLoop THEN @ \cup {key} ELSE @]

\* useEffect / useLayoutEffect at cursor c.
useEffect(s, i, c, kind, deps) ==
    LET hooks == s.instances[i].effects
        s1 == IF MustSchedule(hooks, c, deps) THEN schedule(s, i, c, kind, deps) ELSE s
    IN IF c > Len(hooks)
       THEN [s1 EXCEPT !.instances[i].effects =
                Append(@, [dependencies |-> deps, cleanup |-> NoCleanup,
                           releaseSignals |->
                               SubscribesToSignals(s.instances[i].Component)])]
       ELSE [s1 EXCEPT !.instances[i].effects[c].dependencies = deps]

RECURSIVE useStates(_, _, _, _)
useStates(s, i, c, n) ==
    IF c > n THEN s ELSE useStates(useState(s, i, c), i, c + 1, n)

RECURSIVE useEffects(_, _, _, _, _)
useEffects(s, i, c, kinds, deps) ==
    IF c > Len(kinds) THEN s
    ELSE useEffects(useEffect(s, i, c, kinds[c], deps[c]), i, c + 1, kinds, deps)

\* Component(props): the hook calls of the render function, in order.
CallComponent(s, i, r) ==
    LET C == s.instances[i].Component IN
    useEffects(useStates(s, i, 1, StateHooks(C)), i, 1, EffectHooks(C), r.deps)

\* ------------------------------------------------------ the render executor
\* What a run of the render function does: it throws, or returns `value`
\* after calling its hooks with the dependency lists `deps`.
RenderRuns(Deps) ==
    {r \in [throws : BOOLEAN, value : RenderValues, deps : Deps] :
        r.throws => r.value = "X"}

\* safeExec(cb, rescue) of renderComponent.  The callback throws when the
\* render function does, and also when the instance was torn down: helpGc
\* left hooks undefined, and `componentInstance.hooks.state.cursor = 0` is a
\* TypeError.  The rescue reports one error naming the component and takes
\* the stored renderedValue.
safeExecRender(s, i, r) ==
    IF ~s.instances[i].hooks \/ r.throws
    THEN [state |-> [s EXCEPT !.obs.errors = @ + 1],
          newRenderedValue |-> s.instances[i].renderedValue]
    ELSE [state |-> CallComponent(s, i, r), newRenderedValue |-> r.value]

\* History: the instances the prepare loop of the current pass has visited.
Prepared(s) ==
    {s.hist.visits[k][2] : k \in {k \in DOMAIN s.hist.visits :
                                     s.hist.visits[k][1] = "prepare"}}

\* Mutant of renderComponent: the bail-out of lines 473-478 is left out.
renderComponent_noBailOut(s, i, r) ==
    LET s1 == [s EXCEPT !.idsToExcludeFromUpdate = @ \cup {i},
                        !.hist.renders = @ \cup {i},
                        !.hist.refreshed = @ \cup (Prepared(s) \cap {i}),
                        !.obs.rendered = TRUE, !.obs.run = r]
        run == safeExecRender(s1, i, r)
        s2 == run.state
        inst == s2.instances[i]
    IN [s2 EXCEPT !.instances[i].renderedValue = run.newRenderedValue,
                  !.instances[i].element =
                      buildComponentElement(inst.element.ref,
                                            ChildrenOf(run.newRenderedValue)),
                  !.obs.built = @ + 1]

\* Mutant of renderComponent: line 405 is left out.
renderComponent_noExclusion(s, i, r) ==
    LET s1 == [s EXCEPT !.hist.renders = @ \cup {i},
                        !.hist.refreshed = @ \cup (Prepared(s) \cap {i}),
                        !.obs.rendered = TRUE, !.obs.run = r]
        run == safeExecRender(s1, i, r)
        s2 == run.state
        inst == s2.instances[i]
    IN IF inst.isMounted /\ run.newRenderedValue = inst.renderedValue
       THEN s2
       ELSE [s2 EXCEPT !.instances[i].renderedValue = run.newRenderedValue,
                       !.instances[i].element =
                           buildComponentElement(inst.element.ref,
                                                 ChildrenOf(run.newRenderedValue)),
                       !.obs.built = @ + 1]

renderComponent(s, i, r) ==
    LET s1 == [s EXCEPT !.idsToExcludeFromUpdate = @ \cup {i},
                        !.hist.renders = @ \cup {i},
                        !.hist.refreshed = @ \cup (Prepared(s) \cap {i}),
                        !.obs.rendered = TRUE, !.obs.run = r]
        run == safeExecRender(s1, i, r)
        s2 == run.state
        inst == s2.instances[i]
    IN IF inst.isMounted /\ run.newRenderedValue = inst.renderedValue
       THEN s2
       ELSE [s2 EXCEPT !.instances[i].renderedValue = run.newRenderedValue,
                       !.instances[i].element =
                           buildComponentElement(inst.element.ref,
                                                 ChildrenOf(run.newRenderedValue)),
                       !.obs.built = @ + 1]

mountComponent(s, i, r) ==
    [renderComponent(s, i, r) EXCEPT !.instances[i].isMounted = TRUE]

\* helpGc: every hook record is cleared, the hook container and the
\* instance's own references are dropped.
helpGc(s, i) ==
    [s EXCEPT !.instances[i].hooks = FALSE,
              !.instances[i].state = <<>>,
              !.instances[i].effects = <<>>,
              !.instances[i].element = NoElement,
              !.instances[i].renderedValue = Undefined,
              !.instances[i].Component = Undefined,
              !.instances[i].onUpdate = FALSE]

\* What the callbacks of an unmount do: the effect slots whose cleanup throws
\* and those whose releaseSignals throws.
UnmountRuns(Slots) == [cleanupThrows : SUBSET Slots, releaseThrows : SUBSET Slots]

\* One turn of the forEach of unmountComponent, on effect record c.
\* safeExec(effect.cleanup) contains a fault of the cleanup;
\* effect.releaseSignals?.() is a plain call, whose fault leaves the function.
unmountEffect(s, i, c, f) ==
    LET effect == s.instances[i].effects[c]
        s1 == IF effect.cleanup # NoCleanup
              THEN [s EXCEPT !.obs.cleanups = Append(@, c)]
              ELSE s
        s2 == [s1 EXCEPT !.instances[i].effects[c].cleanup = NoCleanup]
    IN IF effect.releaseSignals
       THEN [s2 EXCEPT !.obs.releases = Append(@, c),
                       !.obs.threw = c \in f.releaseThrows]
       ELSE s2

RECURSIVE unmountEffects(_, _, _, _)
unmountEffects(s, i, c, f) ==
    IF c > Len(s.instances[i].effects) \/ s.obs.threw THEN s
    ELSE unmountEffects(unmountEffect(s, i, c, f), i, c + 1, f)

\* The steps of unmountComponent after its guard.  On an instance whose hooks
\* helpGc has dropped, `componentInstance.hooks.effects` is a TypeError that
\* leaves the function.
unmountMounted(s, i, f) ==
    LET s1 == [s EXCEPT !.idsToExcludeFromUpdate = @ \cup {i}]
        s2 == unmountEffects(s1, i, 1, f)
    IN IF ~s.instances[i].hooks THEN [s1 EXCEPT !.obs.threw = TRUE]
       ELSE IF s2.obs.threw THEN s2
       ELSE helpGc([s2 EXCEPT !.instances[i].isMounted = FALSE], i)

\* Mutant of unmountComponent: the guard on isMounted is left out.
unmountComponent_unguarded(s, i, f) == unmountMounted(s, i, f)

unmountComponent(s, i, f) ==
    IF ~s.instances[i].isMounted THEN s ELSE unmountMounted(s, i, f)

\* Mutant of prepareComponentForFrame: the staged values are not copied.
prepareComponentForFrame_skips(s, i) == s

\* On a mounted instance whose hooks helpGc has dropped,
\* `componentInstance.hooks.state` is a TypeError that leaves the function.
prepareComponentForFrame(s, i) ==
    IF ~s.instances[i].isMounted THEN s
    ELSE IF ~s.instances[i].hooks THEN [s EXCEPT !.obs.threw = TRUE]
    ELSE LET hooks == s.instances[i].state IN
         [s EXCEPT !.instances[i].state =
              [k \in DOMAIN hooks |-> [hooks[k] EXCEPT !.value = hooks[k].nextValue]]]

\* Mutant of forceUpdateComponent: onUpdate is called after every render.
forceUpdateComponent_alwaysNotifies(s, i, r) ==
    IF ~s.instances[i].isMounted \/ ~s.instances[i].onUpdate THEN s
    ELSE [renderComponent(s, i, r) EXCEPT !.obs.onUpdate = @ + 1]

\* Mutant of forceUpdateComponent: the guard of lines 582-584 is left out.
forceUpdateComponent_unguarded(s, i, r) ==
    LET currentElement == s.instances[i].element
        s1 == renderComponent(s, i, r)
    IN IF s1.instances[i].element.ref # currentElement.ref
       THEN [s1 EXCEPT !.obs.onUpdate = @ + 1]
       ELSE s1

forceUpdateComponent(s, i, r) ==
    IF ~s.instances[i].isMounted \/ ~s.instances[i].onUpdate THEN s
    ELSE LET currentElement == s.instances[i].element
             s1 == renderComponent(s, i, r)
         IN IF s1.instances[i].element.ref # currentElement.ref
            THEN [s1 EXCEPT !.obs.onUpdate = @ + 1]
            ELSE s1

\* ----------------------------------------------------- queued callbacks
\* The closure useEffect enqueues as cleanup: it calls the cleanup the slot
\* holds, if any, and clears the field.
runEffectCleanup(s, cb) ==
    LET i == cb.inst
        c == cb.slot
    IN IF s.instances[i].hooks /\ c <= Len(s.instances[i].effects)
          /\ s.instances[i].effects[c].cleanup # NoCleanup
       THEN [s EXCEPT !.instances[i].effects[c].cleanup = NoCleanup,
                      !.obs.ran[Len(s.obs.ran)].called = TRUE,
                      !.hist.cleaned = @ \cup {<<i, c>>}]
       ELSE s

\* The closure useEffect enqueues as effect: on a mounted instance it calls
\* the effect and keeps the cleanup the effect returns.
runEffect(s, cb) ==
    LET i == cb.inst
        c == cb.slot
    IN IF s.instances[i].isMounted /\ c <= Len(s.instances[i].effects)
       THEN [s EXCEPT !.instances[i].effects[c].cleanup = cb.tag,
                      !.obs.ran[Len(s.obs.ran)].called = TRUE]
       ELSE s

\* cb(): one callback of a queue.  The observation lists the callbacks run,
\* each with whether it called the user's function.
runCallback(s, entry) ==
    LET cb == entry.cb
        s1 == [s EXCEPT !.obs.ran =
                   Append(@, [key |-> entry.key, cb |-> cb, called |-> cb.kind = "raw"])]
    IN CASE cb.kind = "cleanup" -> runEffectCleanup(s1, cb)
         [] cb.kind = "effect" -> runEffect(s1, cb)
         [] OTHER -> s1

RECURSIVE runCallbacks(_, _)
runCallbacks(s, entries) ==
    IF entries = <<>> THEN s
    ELSE runCallbacks(runCallback(s, Head(entries)), Tail(entries))

\* runImmediateEffects, called by user code: both layout queues are swapped
\* out and run.
runImmediateEffects(s) ==
    LET s1 == runCallbacks([s EXCEPT !.pendingLayoutCleanups = <<>>,
                                     !.hist.latest["layoutCleanups"] = {}],
                           s.pendingLayoutCleanups)
    IN runCallbacks([s1 EXCEPT !.pendingLayoutEffects = <<>>,
                               !.hist.latest["layoutEffects"] = {}],
                    s1.pendingLayoutEffects)

\* ------------------------------------------------------ the frame flush
RECURSIVE Ascending(_)
Ascending(S) ==
    IF S = {} THEN <<>>
    ELSE LET m == CHOOSE x \in S : \A y \in S : x <= y IN <<m>> \o Ascending(S \ {m})

RECURSIVE Descending(_)
Descending(S) ==
    IF S = {} THEN <<>>
    ELSE LET m == CHOOSE x \in S : \A y \in S : x >= y IN <<m>> \o Descending(S \ {m})

\* Mutant of SortById: the comparator b.id - a.id.
SortById_descending(S) == Descending(S)

\* Array.from(instancesPendingUpdate).sort((a, b) => a.id - b.id)
SortById(S) == Ascending(S)

\* Mutant of ReadPhaseLoops: the effects are run before the cleanups.
ReadPhaseLoops_effectsFirst == <<"effects", "cleanups">>

\* The loops of the two callbacks, in the order of the source.
ReadPhaseLoops == <<"cleanups", "effects">>

\* Mutant of WritePhaseLoops: runImmediateEffects is split around the updates.
WritePhaseLoops_layoutFirst == <<"layoutCleanups", "updates", "layoutEffects">>

WritePhaseLoops == <<"updates", "layoutCleanups", "layoutEffects">>

\* The loop after `loop` in the callback it belongs to, "end" after the last.
LoopAfter(loop) ==
    LET order == IF loop \in Range(ReadPhaseLoops) THEN ReadPhaseLoops ELSE WritePhaseLoops
        k == CHOOSE j \in DOMAIN order : order[j] = loop
    IN IF k = Len(order) THEN "end" ELSE order[k + 1]

\* const currentCleanups = pendingCleanups; pendingCleanups = new Map();
\* Mutant of beginCleanups: the queue is iterated in place, not swapped out.
beginCleanups_inPlace(s) ==
    NoteSwap([s EXCEPT !.cur = s.pendingCleanups, !.pc = "cleanups"], "cleanups")

\* const currentCleanups = pendingCleanups; pendingCleanups = new Map();
beginCleanups(s) ==
    NoteSwap([s EXCEPT !.cur = s.pendingCleanups, !.pendingCleanups = <<>>,
                       !.pc = "cleanups"], "cleanups")

\* Mutant of beginEffects: the queue is iterated in place, not swapped out.
beginEffects_inPlace(s) ==
    NoteSwap([s EXCEPT !.cur = s.pendingEffects, !.pc = "effects"], "effects")

\* const currentEffects = pendingEffects; pendingEffects = new Map();
beginEffects(s) ==
    NoteSwap([s EXCEPT !.cur = s.pendingEffects, !.pendingEffects = <<>>,
                       !.pc = "effects"], "effects")

\* instancesToUpdate.forEach((instance) => ...), the second loop
beginUpdates(s) == [s EXCEPT !.cur = s.instancesToUpdate, !.pc = "updates"]

\* areImmediateEffectsPending = false; runImmediateEffects() up to its first loop.
beginLayoutCleanups(s) ==
    NoteSwap([s EXCEPT !.areImmediateEffectsPending = FALSE,
                       !.cur = s.pendingLayoutCleanups,
                       !.pendingLayoutCleanups = <<>>,
                       !.pc = "layoutCleanups"], "layoutCleanups")

beginLayoutEffects(s) ==
    NoteSwap([s EXCEPT !.cur = s.pendingLayoutEffects, !.pendingLayoutEffects = <<>>,
                       !.pc = "layoutEffects"], "layoutEffects")

begin(s, loop) ==
    CASE loop = "cleanups" -> beginCleanups(s)
      [] loop = "effects" -> beginEffects(s)
      [] loop = "updates" -> beginUpdates(s)
      [] loop = "layoutCleanups" -> beginLayoutCleanups(s)
      [] loop = "layoutEffects" -> beginLayoutEffects(s)

\* The read-phase callback up to its first loop.
beginReadPhase(s) ==
    begin([s EXCEPT !.waiting = FALSE,
                    !.hist.measures = @ - 1,
                    !.areImmediateEffectsPending = TRUE,
                    !.idsToExcludeFromUpdate = {},
                    !.instancesToUpdate = SortById(s.instancesPendingUpdate),
                    !.instancesPendingUpdate = {},
                    !.hist.group = "none",
                    !.hist.visits = <<>>,
                    !.hist.reentered = {},
                    !.hist.renders = {},
                    !.hist.faulted = {},
                    !.hist.refreshed = {},
                    !.hist.batch = s.instancesPendingUpdate],
          ReadPhaseLoops[1])

\* requestMutation(() => ...): the write-phase callback is requested and the
\* read-phase callback ends.
requestMutation(s) ==
    [s EXCEPT !.cur = <<>>, !.pc = "gap", !.hist.mutations = @ + 1]

\* instancesToUpdate.forEach(prepareComponentForFrame)
RECURSIVE prepareAll(_, _)
prepareAll(s, batch) ==
    IF batch = <<>> \/ s.obs.threw THEN s
    ELSE prepareAll(
             [NoteGroup(prepareComponentForFrame(s, Head(batch)), "prepare")
                  EXCEPT !.hist.visits = Append(@, <<"prepare", Head(batch)>>),
                         !.hist.applied =
                             @ \cup {e \in s.hist.requested : e.inst = Head(batch)},
                         !.hist.requested = {e \in @ : e.inst # Head(batch)}],
             Tail(batch))

\* The write-phase callback returns.
endWritePhase(s) == [s EXCEPT !.cur = <<>>, !.pc = "idle", !.instancesToUpdate = <<>>]

\* The write-phase callback up to its second loop; a fault of the prepare
\* loop leaves the callback.
beginWritePhase(s) ==
    LET s1 == prepareAll([s EXCEPT !.hist.mutations = @ - 1], s.instancesToUpdate) IN
    IF s1.obs.threw THEN endWritePhase(s1) ELSE begin(s1, WritePhaseLoops[1])

\* Whether the turn of the second loop on instance i reaches the render function.
Updates(s, i) ==
    /\ i \notin s.idsToExcludeFromUpdate
    /\ s.instances[i].isMounted
    /\ s.instances[i].onUpdate

\* History: the forced update of instance i has reported a fault.
NoteFault(s, i) ==
    IF s.obs.errors > 0 THEN [s EXCEPT !.hist.faulted = @ \cup {i}] ELSE s

\* Mutant of updateInstance: a fault of the render function leaves the
\* write-phase callback.
updateInstance_faultAborts(s, i, r) ==
    LET s1 == [NoteGroup(s, "updates") EXCEPT !.hist.visits = Append(@, <<"update", i>>),
                                              !.cur = Tail(s.cur)]
        s2 == NoteFault(forceUpdateComponent(Observe(s1, "forceUpdate", i), i, r), i)
    IN IF i \in s1.idsToExcludeFromUpdate THEN s1
       ELSE IF s2.obs.errors > 0 THEN endWritePhase(s2)
       ELSE s2

\* One turn of the second loop of the write phase.
updateInstance(s, i, r) ==
    LET s1 == [NoteGroup(s, "updates") EXCEPT !.hist.visits = Append(@, <<"update", i>>),
                                              !.cur = Tail(s.cur)]
    IN IF i \in s1.idsToExcludeFromUpdate THEN s1
       ELSE NoteFault(forceUpdateComponent(Observe(s1, "forceUpdate", i), i, r), i)

\* One turn of a loop over a queue that was swapped out.
callNext(s) ==
    NoteGroup(runCallback([s EXCEPT !.cur = Tail(s.cur),
                                    !.obs.op = "callback",
                                    !.hist.ran = Append(@, Head(s.cur))],
                          Head(s.cur)), s.pc)

\* The flush from the point it stands at (inside a callback that has returned)
\* to the end of the next callback into user code, or to the end of the
\* handler when no callback is left.
RECURSIVE advance(_, _)
advance(s, r) ==
    CASE s.cur # <<>> /\ s.pc \in QueueNames -> callNext(s)
      [] s.cur # <<>> /\ s.pc = "updates" ->
             IF Updates(s, Head(s.cur)) THEN updateInstance(s, Head(s.cur), r)
             ELSE advance(updateInstance(s, Head(s.cur), r), r)
      [] s.cur = <<>> /\ LoopAfter(s.pc) # "end" -> advance(begin(s, LoopAfter(s.pc)), r)
      [] s.cur = <<>> /\ LoopAfter(s.pc) = "end" ->
             IF s.pc \in Range(ReadPhaseLoops) THEN requestMutation(s)
             ELSE endWritePhase(s)

\* ================================================================ actions
\* The state every specification starts in: the module has just been loaded.
Init ==
    /\ lastComponentId = 0
    /\ instances = [i \in Ids |-> NoInstance]
    /\ instancesPendingUpdate = {}
    /\ idsToExcludeFromUpdate = {}
    /\ pendingEffects = <<>>
    /\ pendingCleanups = <<>>
    /\ pendingLayoutEffects = <<>>
    /\ pendingLayoutCleanups = <<>>
    /\ areImmediateEffectsPending = FALSE
    /\ waiting = FALSE
    /\ pc = "idle"
    /\ cur = <<>>
    /\ instancesToUpdate = <<>>
    /\ obs = NoObs
    /\ hist = NoHist

\* The state a call starts from.  The record of a frame pass is kept until the
\* first call after the pass has ended, the record of a loop over a queue
\* until the first call after the callback the loop belongs to has ended.
Fresh ==
    [State EXCEPT !.obs = NoObs,
                  !.hist.group = IF pc = "idle" THEN "none" ELSE @,
                  !.hist.visits = IF pc = "idle" THEN <<>> ELSE @,
                  !.hist.batch = IF pc = "idle" THEN {} ELSE @,
                  !.hist.applied = IF pc = "idle" THEN {} ELSE @,
                  !.hist.reentered = IF pc = "idle" THEN {} ELSE @,
                  !.hist.cleaned = IF pc = "idle" THEN {} ELSE @,
                  !.hist.renders = IF pc = "idle" THEN {} ELSE @,
                  !.hist.faulted = IF pc = "idle" THEN {} ELSE @,
                  !.hist.refreshed = IF pc = "idle" THEN {} ELSE @,
                  !.hist.draining = IF pc \in {"idle", "gap"} THEN {} ELSE @,
                  !.hist.ran = IF pc \in {"idle", "gap"} THEN <<>> ELSE @]

Created == 1 .. lastComponentId

\* ---- calls user code makes into the runtime
\* createElement(Component, props): a new instance of a render function.
Create(Components, limit) ==
    /\ lastComponentId < limit
    /\ \E C \in Components :
           Becomes(createComponentInstance(Fresh, C))

\* The patcher mounts a new child: createElement, then mountComponent on the
\* instance of the element.
MountNew(Components, limit, Runs) ==
    /\ lastComponentId < limit
    /\ \E C \in Components, r \in Runs :
           LET i == lastComponentId + 1 IN
           Becomes(mountComponent(Observe(createComponentInstance(Fresh, C), "mount", i), i, r))

\* mountComponent on an instance that was never mounted.
Mount(Runs) ==
    \E i \in Created, r \in Runs :
        /\ ~instances[i].isMounted
        /\ instances[i].hooks
        /\ Becomes(mountComponent(Observe(Fresh, "mount", i), i, r))

\* mountComponent on an instance that was unmounted before.
Remount(Runs) ==
    \E i \in Created, r \in Runs :
        /\ ~instances[i].isMounted
        /\ ~instances[i].hooks
        /\ Becomes(mountComponent(Observe(Fresh, "mount", i), i, r))

\* The patcher installs onUpdate on the instance it has mounted.
InstallOnUpdate ==
    \E i \in Created :
        /\ instances[i].isMounted
        /\ ~instances[i].onUpdate
        /\ Becomes([Fresh EXCEPT !.instances[i].onUpdate = TRUE])

\* renderComponent called by the patcher on a mounted instance.
Render(Runs) ==
    \E i \in Created, r \in Runs :
        /\ instances[i].isMounted
        /\ Becomes(renderComponent(Observe(Fresh, "render", i), i, r))

Unmount(Faults) ==
    \E i \in Created, f \in Faults :
        Becomes(unmountComponent(Observe(Fresh, "unmount", i), i, f))

\* A state setter of a mounted instance is called.
SetState ==
    \E i \in Created :
        \E c \in DOMAIN instances[i].state, v \in StateValues :
            Becomes(setState(Fresh, i, c, v))

EnqueueUpdate ==
    \E i \in Created : Becomes(enqueueUpdate(Fresh, i))

\* enqueueEffect(key, cb) and its three siblings, called with a callback of
\* the caller's own.
RawKey(k) == <<0, k>>
RawCallback(k, tag) == Callback("raw", 0, k, <<tag>>)

\* The callbacks that wait in a queue or in the collection being iterated.
PendingCount ==
    Len(pendingEffects) + Len(pendingCleanups)
        + Len(pendingLayoutEffects) + Len(pendingLayoutCleanups)
        + (IF pc \in QueueNames THEN Len(cur) ELSE 0)

EnqueueEffect(Tags) ==
    \E k \in 1 .. MaxKeys, tag \in Tags :
        /\ PendingCount < MaxPending
        /\ Becomes(enqueueEffect(Fresh, RawKey(k), RawCallback(k, tag)))

EnqueueCleanup(Tags) ==
    \E k \in 1 .. MaxKeys, tag \in Tags :
        /\ PendingCount < MaxPending
        /\ Becomes(enqueueCleanup(Fresh, RawKey(k), RawCallback(k, tag)))

EnqueueLayoutEffect(Tags) ==
    \E k \in 1 .. MaxKeys, tag \in Tags :
        /\ PendingCount < MaxPending
        /\ Becomes(enqueueLayoutEffect(Fresh, RawKey(k), RawCallback(k, tag)))

EnqueueLayoutCleanup(Tags) ==
    \E k \in 1 .. MaxKeys, tag \in Tags :
        /\ PendingCount < MaxPending
        /\ Becomes(enqueueLayoutCleanup(Fresh, RawKey(k), RawCallback(k, tag)))

\* enqueueCleanup called by another owner, whose key has no cleanup waiting.
EnqueueForeignCleanup ==
    /\ ~HasKey(pendingCleanups, RawKey(1))
    /\ ~(pc = "cleanups" /\ HasKey(cur, RawKey(1)))
    /\ Becomes(enqueueCleanup(Fresh, RawKey(1), RawCallback(1, 1)))

\* runImmediateEffects() called from outside the flush's own layout loops.
RunImmediateEffects ==
    /\ pc \notin {"layoutCleanups", "layoutEffects"}
    /\ pendingLayoutCleanups # <<>> \/ pendingLayoutEffects # <<>>
    /\ Becomes(runImmediateEffects([Fresh EXCEPT !.obs.op = "runImmediateEffects"]))

\* ---- the frame flush
\* The frame's read phase invokes the throttled callback.
ReadPhase ==
    /\ hist.measures > 0
    /\ pc = "idle"
    /\ Becomes(advance(beginReadPhase(Fresh), NoRun))

\* The read-phase callback goes on after a callback of its loops has returned.
ContinueRead ==
    /\ pc \in {"cleanups", "effects"}
    /\ Becomes(advance(Fresh, NoRun))

\* The frame's write phase invokes the callback given to requestMutation.
WritePhase(Runs) ==
    /\ hist.mutations > 0
    /\ pc = "gap"
    /\ \E r \in Runs :
           LET s1 == beginWritePhase(Fresh) IN
           Becomes(IF s1.obs.threw THEN s1 ELSE advance(s1, r))

ContinueWrite(Runs) ==
    /\ pc \in {"updates", "layoutCleanups", "layoutEffects"}
    /\ \E r \in Runs : Becomes(advance(Fresh, r))

\* ========================================================= specifications
PlainRuns == RenderRuns({<<>>})
NoFaults == UnmountRuns({})

Returns(Runs) == {r \in Runs : ~r.throws}

Next ==
    \/ MountNew({"Plain"}, MaxInst, Returns(PlainRuns))
    \/ InstallOnUpdate
    \/ Render(PlainRuns)
    \/ Unmount(NoFaults)
    \/ EnqueueUpdate
    \/ ReadPhase
    \/ WritePhase(PlainRuns)
    \/ ContinueWrite(PlainRuns)

Spec == Init /\ [][Next]_vars

\* The order of a flush: callbacks in the four queues and one instance.
ValueRuns == Returns(PlainRuns)
OneRun == {NoRun}

NextOrder ==
    \/ MountNew({"Plain"}, 1, OneRun)
    \/ InstallOnUpdate
    \/ EnqueueUpdate
    \/ EnqueueEffect({1})
    \/ EnqueueCleanup({1})
    \/ EnqueueLayoutEffect({1})
    \/ EnqueueLayoutCleanup({1})
    \/ ReadPhase
    \/ ContinueRead
    \/ WritePhase(ValueRuns)
    \/ ContinueWrite(ValueRuns)

SpecOrder == Init /\ [][NextOrder]_vars

\* The queues: callbacks enqueued under the same and under different keys,
\* and one instance enqueued for update.
NextQueues ==
    \/ MountNew({"Plain"}, 1, OneRun)
    \/ EnqueueUpdate
    \/ EnqueueEffect({1, 2})
    \/ EnqueueCleanup({1, 2})
    \/ EnqueueLayoutEffect({1, 2})
    \/ EnqueueLayoutCleanup({1, 2})
    \/ ReadPhase
    \/ ContinueRead
    \/ WritePhase(OneRun)
    \/ ContinueWrite(OneRun)

SpecQueues == Init /\ [][NextQueues]_vars

\* Rendering: one instance whose render function returns one of two values or
\* throws, at its mount, at a render by the patcher and at a forced update.
NextRender ==
    \/ MountNew({"Plain"}, 1, PlainRuns)
    \/ InstallOnUpdate
    \/ Render(PlainRuns)
    \/ EnqueueUpdate
    \/ ReadPhase
    \/ WritePhase(PlainRuns)
    \/ ContinueWrite(PlainRuns)

SpecRender == Init /\ [][NextRender]_vars

\* Faults: the instances of a batch whose render functions may throw at their
\* forced update, with layout cleanups and layout effects waiting.
NextFaults ==
    \/ MountNew({"Plain"}, MaxInst, OneRun)
    \/ InstallOnUpdate
    \/ EnqueueUpdate
    \/ EnqueueLayoutEffect({1})
    \/ EnqueueLayoutCleanup({1})
    \/ ReadPhase
    \/ WritePhase(PlainRuns)
    \/ ContinueWrite(PlainRuns)

SpecFaults == Init /\ [][NextFaults]_vars

\* State: one instance with MaxStateHooks state slots whose setters are called
\* at any point between and inside the callbacks of the flush.
NextState ==
    \/ MountNew({"Stateful"}, 1, OneRun)
    \/ InstallOnUpdate
    \/ SetState
    \/ Unmount(NoFaults)
    \/ ReadPhase
    \/ WritePhase(OneRun)
    \/ ContinueWrite(OneRun)

SpecState == Init /\ [][NextState]_vars

\* Stale renders: one instance with state slots, whose setters are called and
\* which the patcher renders at any point between and inside the callbacks of
\* the flush.
NextStale ==
    \/ MountNew({"Stateful"}, 1, OneRun)
    \/ InstallOnUpdate
    \/ SetState
    \/ Render(OneRun)
    \/ ReadPhase
    \/ WritePhase(OneRun)
    \/ ContinueWrite(OneRun)

SpecStale == Init /\ [][NextStale]_vars

\* Progress: one instance that is enqueued for update and rendered by the
\* patcher at any point, and callbacks enqueued into the four queues.  The
\* frame invokes every callback it was asked for, and every callback the
\* flush calls into user code returns.
NextLive ==
    \/ MountNew({"Plain"}, 1, OneRun)
    \/ InstallOnUpdate
    \/ EnqueueUpdate
    \/ Render(OneRun)
    \/ EnqueueEffect({1})
    \/ EnqueueCleanup({1})
    \/ EnqueueLayoutEffect({1})
    \/ EnqueueLayoutCleanup({1})
    \/ ReadPhase
    \/ ContinueRead
    \/ WritePhase(OneRun)
    \/ ContinueWrite(OneRun)

\* Where the flush stands.  The four steps of the flush are the steps that
\* change it, and each of them does: the fairness of the frame is stated on
\* it.
position == <<pc, cur>>

Suffixes(q) == {SubSeq(q, k, Len(q)) : k \in 1 .. Len(q) + 1}

\* The positions a step of the flush can lead to: between the callbacks, in
\* the loop over the batch with what is left of the batch, and in the loop over
\* a queue with what is left of the callbacks that waited.
Positions ==
    ({"idle", "gap"} \X {<<>>})
        \cup ({"updates"} \X Suffixes(instancesToUpdate))
        \cup (QueueNames \X
                  ((IF pc \in QueueNames THEN Suffixes(cur) ELSE {})
                       \cup Suffixes(pendingCleanups) \cup Suffixes(pendingEffects)
                       \cup Suffixes(pendingLayoutCleanups)
                       \cup Suffixes(pendingLayoutEffects)))

\* The flush moves on from one of the places `from`.
Moves(from) ==
    /\ pc \in from
    /\ \E p \in Positions : pc' = p[1] /\ cur' = p[2]

ReadPhaseMoves == hist.measures > 0 /\ Moves({"idle"})

ContinueReadMoves == Moves(Range(ReadPhaseLoops))

WritePhaseMoves == hist.mutations > 0 /\ Moves({"gap"})

ContinueWriteMoves == Moves(Range(WritePhaseLoops))

SpecLive ==
    /\ Init
    /\ [][NextLive]_vars
    /\ WF_position(ReadPhaseMoves)
    /\ WF_position(ContinueReadMoves)
    /\ WF_position(WritePhaseMoves)
    /\ WF_position(ContinueWriteMoves)

\* The steps of the flush are the steps that change the position.
FlushMoves ==
    [][/\ ReadPhase <=> ReadPhaseMoves /\ position' # position
       /\ ContinueRead <=> ContinueReadMoves /\ position' # position
       /\ WritePhase(OneRun) <=> WritePhaseMoves /\ position' # position
       /\ ContinueWrite(OneRun) <=> ContinueWriteMoves /\ position' # position]_vars

\* Effects: one instance with an ordinary and a layout effect, rendered with
\* changing dependency lists at its mount and by renderComponent at any point
\* between and inside the callbacks of the flush, among them a cleanup that
\* belongs to another owner (enqueued directly).  The ordinary effect takes
\* three dependency lists, the layout effect two.
EffectDeps == {<<1, 1>>, <<1, 2>>, NoDeps}

EffectRuns ==
    {r \in RenderRuns([1 .. 2 -> EffectDeps]) :
        ~r.throws /\ r.value = "X" /\ r.deps[2] # <<1, 2>>}

NextEffects ==
    \/ MountNew({"Effectful"}, 1, EffectRuns)
    \/ Render(EffectRuns)
    \/ EnqueueForeignCleanup
    \/ ReadPhase
    \/ ContinueRead
    \/ WritePhase(OneRun)
    \/ ContinueWrite(OneRun)

SpecEffects == Init /\ [][NextEffects]_vars

\* Lifecycle: an instance of a render function with two effects that subscribe
\* to signals is created, mounted, force-updated, unmounted with cleanups and
\* release callbacks that may throw, and mounted again.
SubscriberRuns == RenderRuns({[c \in 1 .. 2 |-> <<1, 1>>]})

SubscriberFaults == UnmountRuns({1, 2})

NextLifecycle ==
    \/ Create({"Subscriber"}, 1)
    \/ Mount(SubscriberRuns)
    \/ Remount(SubscriberRuns)
    \/ InstallOnUpdate
    \/ Unmount(SubscriberFaults)
    \/ EnqueueUpdate
    \/ ReadPhase
    \/ ContinueRead
    \/ WritePhase(SubscriberRuns)
    \/ ContinueWrite(SubscriberRuns)

SpecLifecycle == Init /\ [][NextLifecycle]_vars

\* The flag of the layout phase: one instance that is created, mounted,
\* unmounted and mounted again, and enqueued for update, with callbacks
\* enqueued into the ordinary and the layout queues and runImmediateEffects
\* called at any point between and inside the callbacks of the flush.
NextFlag ==
    \/ Create({"Plain"}, 1)
    \/ Mount(OneRun)
    \/ Remount(OneRun)
    \/ InstallOnUpdate
    \/ Unmount(NoFaults)
    \/ EnqueueUpdate
    \/ EnqueueEffect({1})
    \/ EnqueueLayoutEffect({1})
    \/ EnqueueLayoutCleanup({1})
    \/ RunImmediateEffects
    \/ ReadPhase
    \/ ContinueRead
    \/ WritePhase(OneRun)
    \/ ContinueWrite(OneRun)

SpecFlag == Init /\ [][NextFlag]_vars

\* ================================================================= claims
GroupRank(g) ==
    CASE g = "none" -> 0
      [] g = "cleanups" -> 1
      [] g = "effects" -> 2
      [] g = "prepare" -> 3
      [] g = "updates" -> 4
      [] g = "layoutCleanups" -> 5
      [] g = "layoutEffects" -> 6

ReadGroups == {"cleanups", "effects"}
WriteGroups == {"prepare", "updates", "layoutCleanups", "layoutEffects"}

\* No instance is visited by the update loop before the last prepare call.
C1_PrepareFirst ==
    \A k, l \in DOMAIN hist.visits :
        hist.visits[k][1] = "update" /\ hist.visits[l][1] = "prepare" => l < k

\* A step that runs work of another group than the last one runs work of a
\* later group of the order (of the first groups, when it starts a pass); the
\* groups of the read phase run in the read-phase callback, the others in the
\* write-phase callback.
C1_Step ==
    hist'.group # hist.group /\ hist'.group # "none" =>
        /\ GroupRank(hist'.group) > GroupRank(IF pc = "idle" THEN "none" ELSE hist.group)
        /\ hist'.group \in ReadGroups => pc \in {"idle", "cleanups", "effects"}
        /\ hist'.group \in WriteGroups => pc \in {"gap", "updates", "layoutCleanups", "layoutEffects"}

\* C1: in every frame flush the work runs in the order ordinary-effect
\* cleanups, ordinary effects (read-phase callback), state-prepare of the
\* batch, forced updates, layout-effect cleanups, layout effects (write-phase
\* callback): once a step of a group has run, no step of an earlier group
\* runs in the same flush.
C1_FlushOrder == []C1_PrepareFirst /\ [][C1_Step]_vars

\* A flush has force-updated an instance and then run a layout cleanup and a
\* layout effect.
C1_Witness ==
    /\ pc = "layoutEffects"
    /\ hist.group = "layoutEffects"
    /\ obs.op = "callback"
    /\ hist.draining # {}
    /\ \E k \in DOMAIN hist.visits : hist.visits[k] = <<"update", 1>>
    /\ 1 \in idsToExcludeFromUpdate

Visits(kind) == {k \in DOMAIN hist.visits : hist.visits[k][1] = kind}

\* C2: in the write phase of a pass every instance of the batch is prepared
\* before any instance is visited by the update loop, and the update loop
\* visits the instances of the batch in strictly ascending id (so each at
\* most once, and A before B when A.id < B.id).
C2_BatchOrder ==
    LET v == hist.visits IN
    /\ \A k \in Visits("update") :
           /\ v[k][2] \in hist.batch
           /\ \A B \in hist.batch :
                  \E l \in Visits("prepare") : l < k /\ v[l][2] = B
    /\ \A k, l \in Visits("update") : k < l => v[k][2] < v[l][2]

\* Two instances of one batch have both been force-updated.
C2_Witness ==
    /\ pc = "updates"
    /\ Cardinality(hist.batch) >= 2
    /\ Cardinality(Visits("update")) >= 2
    /\ obs.op = "forceUpdate"
    /\ obs.rendered
    /\ obs.id = MaxInst

Keys(entries) == {e.key : e \in entries}

NoDuplicates(q) == \A k, l \in DOMAIN q : k # l => q[k] # q[l]

\* C10: in the iteration of a queue that was swapped out, the callback run
\* for a key is the one most recently enqueued under that key before the swap,
\* no key has two callbacks run, and every key enqueued has its callback run
\* or still to run; the batch of a flush holds no instance twice.
C10_EnqueueIdempotent ==
    /\ pc \in QueueNames =>
           /\ \A k \in DOMAIN hist.ran :
                  \E e \in hist.draining : e.key = hist.ran[k].key /\ e.cb = hist.ran[k].cb
           /\ NoDuplicates(SeqMap(LAMBDA e : e.key, hist.ran \o cur))
           /\ Keys(Range(hist.ran \o cur)) = Keys(hist.draining)
    /\ NoDuplicates(instancesToUpdate)
    /\ Range(instancesToUpdate) = IF pc = "idle" THEN {} ELSE hist.batch

\* The iteration of a queue has run the callback of a key under which two
\* callbacks were enqueued.
C10_Witness ==
    /\ pc \in QueueNames
    /\ \E k \in DOMAIN hist.ran :
           \E e \in hist.draining : e.key = hist.ran[k].key /\ e.replaced

\* A forced update whose render function returned: on the stored renderedValue
\* the element is kept, nothing is built and onUpdate is not called; on another
\* value one element is built and stored, and onUpdate is called once.
C3_Step ==
    obs'.op = "forceUpdate" /\ obs'.rendered /\ ~obs'.run.throws =>
        LET i == obs'.id IN
        IF obs'.run.value = instances[i].renderedValue
        THEN /\ obs'.after = obs'.before
             /\ instances'[i].element = instances[i].element
             /\ obs'.built = 0
             /\ obs'.onUpdate = 0
        ELSE /\ obs'.after.ref # obs'.before.ref
             /\ obs'.after.children = <<buildChildElement(obs'.run.value)>>
             /\ instances'[i].renderedValue = obs'.run.value
             /\ obs'.built = 1
             /\ obs'.onUpdate = 1

\* C3: a forced update of a mounted instance with onUpdate installed keeps the
\* element, builds nothing and does not call onUpdate when the render function
\* returns the stored renderedValue; it stores a new element and calls onUpdate
\* exactly once when the render function returns another value.
C3_ForcedUpdateBailOut == [][C3_Step]_vars

\* A forced update has rendered the value the instance held and bailed out.
C3_Witness ==
    /\ obs.op = "forceUpdate"
    /\ obs.rendered
    /\ ~obs.run.throws
    /\ obs.run.value = instances[obs.id].renderedValue
    /\ obs.built = 0
    /\ obs.onUpdate = 0

\* A call of renderComponent whose render function threw, as the claim has
\* it: one error, the element and the renderedValue are the ones before.
C4_Step_asClaimed ==
    obs'.rendered /\ obs'.run.throws =>
        LET i == obs'.id IN
        /\ obs'.errors = 1
        /\ obs'.after = obs'.before
        /\ instances'[i].renderedValue = instances[i].renderedValue

\* C4 as claimed: after a render that threw, the element equals the element
\* before the call, at a mount as well as at a forced update.
C4_ElementKept == [][C4_Step_asClaimed]_vars

\* A call of renderComponent whose render function threw: one error, the
\* renderedValue is the one before; a mounted instance keeps its element, an
\* instance being mounted gets a new element whose only child is the empty
\* placeholder, in place of the childless element of its creation.
C4_Step ==
    obs'.rendered /\ obs'.run.throws =>
        LET i == obs'.id IN
        /\ obs'.errors = 1
        /\ instances'[i].renderedValue = instances[i].renderedValue
        /\ IF instances[i].isMounted
           THEN /\ obs'.after = obs'.before
                /\ instances'[i].element = instances[i].element
                /\ obs'.built = 0
                /\ obs'.onUpdate = 0
           ELSE /\ obs'.op = "mount"
                /\ obs'.built = 1
                /\ obs'.after.ref # obs'.before.ref
                /\ obs'.before.children = <<>>
                /\ obs'.after.children = <<buildChildElement(Undefined)>>
                /\ instances'[i].renderedValue = Undefined
                /\ instances'[i].isMounted

\* C4 (amended): a render that throws reports exactly one error and leaves
\* renderedValue unchanged; the element is unchanged when the instance is
\* mounted, and is rebuilt with a single empty child when the throwing render
\* is the one of mountComponent on a not-yet-mounted instance.
C4_RenderThrows == [][C4_Step]_vars

\* The render function of an instance being mounted has thrown.
C4_Witness ==
    /\ obs.op = "mount"
    /\ obs.rendered
    /\ obs.run.throws
    /\ obs.errors = 1
    /\ obs.built = 1
    /\ instances[obs.id].isMounted

\* The value last given to the setter of slot c of instance i since the
\* instance was last prepared, the live value when the setter was not called.
LastRequested(i, c) ==
    IF \E e \in hist.requested : e.inst = i /\ e.slot = c
    THEN (CHOOSE e \in hist.requested : e.inst = i /\ e.slot = c).value
    ELSE instances[i].state[c].value

\* The step that starts the write phase prepares every mounted instance of the
\* batch; no other step changes a live value of an instance that stays mounted.
C5_Step ==
    \A i \in Created :
        instances[i].isMounted /\ instances'[i].isMounted =>
            \A c \in DOMAIN instances[i].state :
                instances'[i].state[c].value =
                    IF pc = "gap" /\ pc' # "gap" /\ i \in Range(instancesToUpdate)
                    THEN LastRequested(i, c)
                    ELSE instances[i].state[c].value

\* C5: after the prepare step of a mounted instance every state slot holds the
\* value last given to its setter since the previous prepare step, and a slot
\* whose setter was not called holds the value it held; between prepare steps
\* the live values do not change.
C5_LastWriteWins == [][C5_Step]_vars

\* The prepare step has applied a request that had replaced an earlier one on
\* the same slot, and the slot holds the value of the later request.
C5_Witness ==
    /\ pc # "idle"
    /\ \E e \in hist.applied :
           /\ e.replaced
           /\ instances[e.inst].isMounted
           /\ instances[e.inst].state[e.slot].value = e.value
           /\ e.value # InitialState

\* The entries of queue q under a key.
Entries(q, key) == {e \in Range(q) : e.key = key}

\* A render that returned: each effect slot is scheduled iff the render is the
\* first of the instance, or the dependency list is undefined or differs from
\* the stored one; a scheduled slot has its cleanup closure and its effect
\* closure of this render waiting under its key, a slot not scheduled has
\* changed nothing waiting under its key.
C6_RenderStep ==
    obs'.rendered /\ ~obs'.run.throws =>
        LET i == obs'.id
            stored == instances[i].effects
            kinds == EffectHooks(instances'[i].Component)
        IN \A c \in DOMAIN kinds :
               LET deps == obs'.run.deps[c]
                   key == <<i, c>>
                   changed == \/ c > Len(stored)
                              \/ deps = NoDeps
                              \/ deps # stored[c].dependencies
                   layout == kinds[c] = "layout"
                   effects == IF layout THEN pendingLayoutEffects ELSE pendingEffects
                   effectsAfter == IF layout THEN pendingLayoutEffects' ELSE pendingEffects'
                   cleanups == IF layout THEN pendingLayoutCleanups ELSE pendingCleanups
                   cleanupsAfter == IF layout THEN pendingLayoutCleanups' ELSE pendingCleanups'
               IN IF changed
                  THEN /\ c \in obs'.scheduled
                       /\ Entries(effectsAfter, key)
                              = {[key |-> key, cb |-> Callback("effect", i, c, deps)]}
                       /\ Entries(cleanupsAfter, key)
                              = {[key |-> key, cb |-> Callback("cleanup", i, c, deps)]}
                  ELSE /\ c \notin obs'.scheduled
                       /\ Entries(effectsAfter, key) = Entries(effects, key)
                       /\ Entries(cleanupsAfter, key) = Entries(cleanups, key)

\* The effect closure the step has run, if the step has run one that called
\* its effect.
EffectRun(o) ==
    {e \in Range(o.ran) : o.op = "callback" /\ e.cb.kind = "effect" /\ e.called}

\* As claimed: whenever an effect callback runs, the cleanup its previous run
\* returned has been executed, so the slot holds no cleanup.
C6_EffectStep_asClaimed ==
    \A e \in EffectRun(obs') :
        /\ instances[e.cb.inst].effects[e.cb.slot].cleanup = NoCleanup
        /\ instances'[e.cb.inst].effects[e.cb.slot].cleanup = e.cb.tag

C6_EffectStep ==
    \A e \in EffectRun(obs') :
        /\ e.key \notin hist.reentered =>
               instances[e.cb.inst].effects[e.cb.slot].cleanup = NoCleanup
        /\ instances'[e.cb.inst].effects[e.cb.slot].cleanup = e.cb.tag

scheduler ==
    <<lastComponentId, instancesPendingUpdate, idsToExcludeFromUpdate,
      pendingEffects, pendingCleanups, pendingLayoutEffects, pendingLayoutCleanups,
      areImmediateEffectsPending, waiting, pc, cur, instancesToUpdate>>

\* A call of unmountComponent on an instance that is not mounted.
C7_Step ==
    obs'.op = "unmount" /\ ~instances[obs'.id].isMounted =>
        /\ instances' = instances
        /\ scheduler' = scheduler
        /\ obs'.cleanups = <<>>
        /\ obs'.releases = <<>>
        /\ ~obs'.threw

\* C7: unmountComponent on an instance that is not mounted (never mounted, or
\* unmounted before) runs no cleanup and no release callback, changes no field
\* of any instance and nothing of the scheduler, the exclusion set included,
\* and does not throw.
C7_UnmountIdempotent == [][C7_Step]_vars

\* unmountComponent was called on an instance that had been torn down.
C7_Witness ==
    /\ obs.op = "unmount"
    /\ obs.before = NoElement
    /\ ~instances[obs.id].isMounted
    /\ ~instances[obs.id].hooks
    /\ obs.id \notin idsToExcludeFromUpdate

\* A call of unmountComponent on a mounted instance: the cleanup of every
\* effect record that holds one and the release callback of every record are
\* invoked, and the instance ends unmounted and torn down.
C8_Step ==
    obs'.op = "unmount" /\ instances[obs'.id].isMounted /\ instances[obs'.id].hooks =>
        LET i == obs'.id
            effects == instances[i].effects
        IN /\ \A c \in DOMAIN effects :
                  /\ effects[c].cleanup # NoCleanup => c \in Range(obs'.cleanups)
                  /\ effects[c].releaseSignals => c \in Range(obs'.releases)
           /\ ~instances'[i].isMounted
           /\ ~instances'[i].hooks

\* C8: in unmountComponent of a mounted instance a fault of one effect
\* record's cleanup or release callback keeps no other record's cleanup or
\* release callback from being invoked, and the instance ends unmounted and
\* torn down.
C8_FaultIsolation == [][C8_Step]_vars

\* C9: an instance that was torn down by unmountComponent is never mounted
\* again.
C9_Terminal ==
    \A i \in Created : ~instances[i].hooks => ~instances[i].isMounted

\* The work that waits for a flush that has not begun: what the five
\* containers hold outside a pass, and inside a pass what they hold once the
\* pass has swapped them out.
AwaitsNextPass ==
    \/ instancesPendingUpdate # {}
    \/ pendingCleanups # <<>>
    \/ pendingEffects # <<>> /\ pc # "cleanups"
    \/ pendingLayoutCleanups # <<>> /\ pc \in {"idle", "layoutCleanups", "layoutEffects"}
    \/ pendingLayoutEffects # <<>> /\ pc \in {"idle", "layoutEffects"}

C15_Step ==
    /\ obs'.rendered => obs'.id \in idsToExcludeFromUpdate'
    /\ obs'.rendered /\ obs'.op = "forceUpdate" => obs'.id \notin hist.renders

\* C15: every renderComponent(i) puts the id of i into the exclusion set of
\* the current pass, so within one pass the loop of forced updates never
\* renders an instance that was rendered since the pass began, and renders
\* each instance at most once.
C15_RenderExcludes ==
    /\ [][C15_Step]_vars
    /\ [](hist.renders \subseteq idsToExcludeFromUpdate)

\* The loop of forced updates has rendered one instance of a batch of two
\* and skipped the other, which a direct call rendered between the phases.
C15_Witness ==
    /\ pc = "updates"
    /\ hist.batch = {1, 2}
    /\ hist.renders = {1, 2}
    /\ obs.op = "forceUpdate" /\ obs.rendered
    /\ Len(SelectSeq(hist.visits, LAMBDA v : v[1] = "update")) = 2

\* ---- C16
\* The container of queue q.
Pending(q) ==
    CASE q = "cleanups" -> pendingCleanups
      [] q = "effects" -> pendingEffects
      [] q = "layoutCleanups" -> pendingLayoutCleanups
      [] q = "layoutEffects" -> pendingLayoutEffects

PendingAfter(q) ==
    CASE q = "cleanups" -> pendingCleanups'
      [] q = "effects" -> pendingEffects'
      [] q = "layoutCleanups" -> pendingLayoutCleanups'
      [] q = "layoutEffects" -> pendingLayoutEffects'

\* What one step does to queue q and to the collection its drain iterates.
\* The step that begins the drain takes every entry that waited and leaves an
\* empty container; a step inside the drain, an enqueue included, leaves the
\* entries of the drain as they are (those run plus those to run) and loses
\* no key of the container; the drain ends when every entry has run; outside
\* the drain no key of the container is lost.
C16_QueueStep(q) ==
    /\ pc # q /\ pc' = q =>
           /\ Range(hist'.ran \o cur') = Range(Pending(q))
           /\ PendingAfter(q) = <<>>
    /\ pc = q /\ pc' = q => hist'.ran \o cur' = hist.ran \o cur
    /\ pc = q /\ pc' # q => cur = <<>>
    /\ ~(pc # q /\ pc' = q) =>
           \A k \in DOMAIN Pending(q) : HasKey(PendingAfter(q), Pending(q)[k].key)

\* The step that begins the read phase takes the pending set as its batch and
\* leaves an empty set; every other step loses no instance of the pending set
\* and, inside a pass, leaves the batch as it is.
C16_BatchStep ==
    IF pc = "idle" /\ pc' # "idle"
    THEN /\ Range(instancesToUpdate') = instancesPendingUpdate
         /\ instancesPendingUpdate' = {}
    ELSE /\ instancesPendingUpdate \subseteq instancesPendingUpdate'
         /\ pc' # "idle" => instancesToUpdate' = instancesToUpdate

\* C16: each of the four queues and the pending-update set is replaced by a
\* new container before it is iterated: work enqueued into a queue while that
\* queue is drained is not executed in that drain, is not lost, and is taken
\* by the next drain of that queue; an instance enqueued after the read phase
\* took its batch is in the batch of the next pass.
C16_SwapBeforeDrain ==
    [][C16_BatchStep /\ \A q \in QueueNames : C16_QueueStep(q)]_vars

\* The drain of the effects has run its entries; an effect enqueued meanwhile
\* waits in the new container, and an instance enqueued after the batch was
\* taken waits in the new pending set.
C16_Witness ==
    /\ pc = "effects"
    /\ cur = <<>>
    /\ hist.ran # <<>>
    /\ pendingEffects # <<>>
    /\ pendingEffects[1].cb # hist.ran[1].cb
    /\ instancesToUpdate # <<>>
    /\ instancesPendingUpdate # {}

\* ---- C17
\* unmountComponent has completed on instance i: helpGc has run.
TornDown(i) == i \in Created /\ ~instances[i].hooks

\* The forced update of an instance that was torn down reaches neither
\* renderComponent, and so not the render function, nor onUpdate, and no step
\* changes the state slots of the instance.
C17_Step ==
    \A i \in Ids :
        TornDown(i) =>
            /\ obs'.op = "forceUpdate" /\ obs'.id = i =>
                   ~obs'.rendered /\ obs'.onUpdate = 0
            /\ instances'[i].state = instances[i].state

Visited ==
    {hist'.visits[k][2] : k \in {k \in DOMAIN hist'.visits :
        hist'.visits[k][1] = "update" /\ k > Len(hist.visits)}}

\* The step in which the render function throws at a forced update: one error
\* is reported, nothing is built, onUpdate is not called, the instance stays
\* mounted with the element and the rendered value it had, and the loop stands
\* after the instance with the rest of the batch to visit and the layout
\* queues as they were.
C18_FaultStep ==
    obs'.op = "forceUpdate" /\ obs'.rendered /\ obs'.run.throws =>
        LET i == obs'.id IN
        /\ obs'.errors = 1 /\ obs'.built = 0 /\ obs'.onUpdate = 0
        /\ instances'[i] = instances[i]
        /\ instances'[i].isMounted
        /\ obs'.after = obs'.before
        /\ pc' = "updates"
        /\ \E k \in DOMAIN instancesToUpdate :
               /\ instancesToUpdate[k] = i
               /\ cur' = SubSeq(instancesToUpdate, k + 1, Len(instancesToUpdate))
        /\ pendingLayoutCleanups' = pendingLayoutCleanups
        /\ pendingLayoutEffects' = pendingLayoutEffects

\* A step of a pass in which a forced update has faulted: the first instance
\* it visits that is mounted, has onUpdate and is not excluded is rendered,
\* and the write-phase callback ends only when the batch has been visited and
\* the layout cleanups and the layout effects have run.
C18_LaterStep ==
    hist.faulted # {} /\ pc \in Range(WritePhaseLoops) =>
        /\ \A j \in Visited :
               Updates(State, j) => obs'.op = "forceUpdate" /\ obs'.id = j /\ obs'.rendered
        /\ pc' = "idle" =>
               /\ pc = "updates" => Range(cur) \subseteq Visited
               /\ pc = "updates" => pendingLayoutCleanups = <<>>
               /\ pc # "layoutEffects" => pendingLayoutEffects = <<>>
               /\ cur = <<>> \/ pc = "updates"

\* C18: a fault of the render function during the forced update of one
\* instance does not abort the pass: the later instances of the batch are
\* still force-updated unless excluded, the layout cleanups and the layout
\* effects of the flush still run, and the faulting instance stays mounted
\* with its previous element, without a call of onUpdate.
C18_RenderFaultIsContained == [][C18_FaultStep /\ C18_LaterStep]_vars

\* After the forced update of the first instance of the batch has faulted the
\* second one was rendered and a layout effect has run.
C18_Witness ==
    /\ pc = "layoutEffects"
    /\ hist.faulted = {1}
    /\ hist.batch = {1, 2}
    /\ hist.renders = {1, 2}
    /\ hist.ran # <<>>

\* ---- C19
\* The step that ends the write phase: every instance of the batch that is
\* mounted and has onUpdate then was rendered after the prepare loop of the
\* pass had visited it.
C19_Step ==
    pc \in {"gap"} \cup Range(WritePhaseLoops) /\ pc' = "idle" =>
        \A i \in hist'.batch :
            instances'[i].isMounted /\ instances'[i].onUpdate =>
                i \in hist'.refreshed

\* C19: no update is lost: for every pass and every instance of its batch
\* that is mounted and has onUpdate installed when the write phase ends, the
\* render function was invoked at least once after the prepare step of the
\* instance in that pass; a render made before the prepare step (in the read
\* phase or between the phases) does not make the write phase skip the
\* instance.
C19_NoLostUpdate == [][C19_Step]_vars

\* ---- C20
\* An instance enqueued for update is in time rendered after the prepare loop
\* of a pass has visited it, unless it does not stay mounted with onUpdate.
C20_UpdatesRun ==
    \A i \in Ids :
        (i \in instancesPendingUpdate)
            ~> (\/ i \in hist.refreshed
                \/ ~instances[i].isMounted
                \/ ~instances[i].onUpdate)

\* The callbacks user code may enqueue directly.
RawEntries ==
    {[key |-> RawKey(k), cb |-> RawCallback(k, 1)] : k \in 1 .. MaxKeys}

\* The drain of queue q has just run entry e.
JustRan(q, e) ==
    pc = q /\ hist.ran # <<>> /\ hist.ran[Len(hist.ran)] = e

\* A callback waiting in a queue is in time executed by a drain of the queue.
C20_CallbacksRun ==
    \A q \in QueueNames : \A e \in RawEntries :
        (e \in Range(Pending(q))) ~> JustRan(q, e)

\* C20: when the frame runs every read-phase and write-phase callback it was
\* asked for, every instance enqueued for update that stays mounted with
\* onUpdate is in time prepared and rendered in a write phase, and every
\* effect, cleanup, layout effect and layout cleanup enqueued is in time
\* executed, work enqueued while a flush runs included.
C20_Liveness == C20_UpdatesRun /\ C20_CallbacksRun

\* willRunImmediateEffects()
willRunImmediateEffects == areImmediateEffectsPending

\* The positions from the start of the read-phase callback to the end of the
\* forced updates of the write phase it requests.
BeforeLayout == Range(ReadPhaseLoops) \cup {"gap", "updates"}

\* The flag is true at exactly the positions before the layout loops.
C21_FlagMarksPass == willRunImmediateEffects <=> pc \in BeforeLayout

\* The step in which the flag falls swaps out the layout cleanups, and the
\* layout effects as well unless it stands in a layout cleanup; the step that
\* ends a write phase leaves the flag false.
C21_Step ==
    /\ willRunImmediateEffects /\ ~willRunImmediateEffects' =>
           /\ pendingLayoutCleanups' = <<>>
           /\ pc' # "layoutCleanups" => pendingLayoutEffects' = <<>>
    /\ pc \in {"gap"} \cup Range(WritePhaseLoops) /\ pc' = "idle" =>
           ~willRunImmediateEffects'

\* C21: willRunImmediateEffects() is true exactly from the start of the
\* read-phase callback of a pass until the forced updates of its write phase
\* have finished, and false in every other state; the flag falls only where
\* the layout cleanups and layout effects are drained, and it is false when a
\* write phase has ended.
C21_FlagAndDrain == [][C21_Step]_vars /\ []C21_FlagMarksPass

\* When the frame runs every callback it was asked for, a true flag falls.
C21_FlagFalls == willRunImmediateEffects ~> ~willRunImmediateEffects

\* ==================================================== the element builder
\* A JavaScript value handed to the builder: a scalar (one item) or an array
\* of scalars.  The scalars are named by their literal; "a" and "b" are
\* non-empty strings.
Falsy == {"false", "null", Undefined, "0", ""}

ChildValues == Falsy \cup {"a"}

Scalar(v) == [array |-> FALSE, items |-> <<v>>]

Array(q) == [array |-> TRUE, items |-> q]

\* JavaScript truthiness: every array is truthy.
Truthy(value) == value.array \/ value.items[1] \notin Falsy

\* An object literal is a function from its keys to values.
EmptyObject == [k \in {} |-> Scalar(Undefined)]

\* {...a, ...b}
Spread(a, b) ==
    [k \in DOMAIN a \cup DOMAIN b |-> IF k \in DOMAIN b THEN b[k] ELSE a[k]]

\* object[key]
Get(object, key) ==
    IF key \in DOMAIN object THEN object[key] ELSE Scalar(Undefined)

\* children.flat(): the items of the rest arguments, arrays opened one level.
RECURSIVE flat(_)
flat(args) ==
    IF args = <<>> THEN <<>> ELSE args[1].items \o flat(Tail(args))

Fragment == "Fragment"

RenderFunctions == {"Plain", "Stateful"}

Tags == {"div", "span"}

buildFragmentElement(children) ==
    [type |-> "Fragment",
     children |-> SeqMap(buildChildElement, dropEmptyTail(children, TRUE))]

buildTagElement(tag, props, children) ==
    [type |-> "Tag", tag |-> tag, props |-> props,
     children |-> SeqMap(buildChildElement, dropEmptyTail(children, FALSE))]

\* let parsedChildren of createComponentInstance.
parsedChildren(children) ==
    IF Len(children) = 0 THEN Scalar(Undefined)
    ELSE IF Len(children) = 1 THEN Scalar(children[1])
    ELSE Array(children)

\* The props of the new instance:
\* {...props, ...(parsedChildren && { children: parsedChildren })}.
componentProps(props, children) ==
    Spread(props, IF Truthy(parsedChildren(children))
                  THEN [k \in {"children"} |-> parsedChildren(children)]
                  ELSE EmptyObject)

\* The element a call returns to its caller.
Return(s, element) == [s EXCEPT !.obs.returned = element]

\* createElement(source, props, ...children); `given` is false when the props
\* argument is null.
createElement(s, source, given, props, args) ==
    LET children == flat(args)
        passed == IF given THEN props ELSE EmptyObject
    IN  IF source = Fragment THEN Return(s, buildFragmentElement(children))
        ELSE IF source \in RenderFunctions
             THEN LET s1 == createComponentInstance(s, source)
                      id == s1.lastComponentId
                  IN  Return(s1, [type |-> "Component",
                                  componentInstance |-> [id |-> id, Component |-> source],
                                  props |-> componentProps(passed, children),
                                  children |-> s1.instances[id].element.children])
        ELSE Return(s, buildTagElement(source, passed, children))

\* ---- the arguments of the builder
MaxChildren == 3    \* children passed to one call of the builder

Lists(S, n) == UNION {[1 .. k -> S] : k \in 0 .. n}

ChildLists == Lists(ChildValues, MaxChildren)

\* The rest arguments that pass a list of children: one by one, as one array,
\* or the first one alone and the others as an array.
RestArgs(children) ==
    {SeqMap(Scalar, children), <<Array(children)>>}
        \cup (IF children = <<>> THEN {}
              ELSE {<<Scalar(Head(children)), Array(Tail(children))>>})

PassedProps ==
    {EmptyObject,
     [k \in {"key"} |-> Scalar("k1")],
     [k \in {"children"} |-> Scalar("b")],
     [k \in {"key", "children"} |-> Scalar("b")]}

CreateElementCalls ==
    {[fn |-> "createElement", source |-> source, given |-> given,
      props |-> props, children |-> args] :
        source \in {Fragment} \cup RenderFunctions \cup Tags,
        given \in BOOLEAN,
        props \in PassedProps,
        args \in UNION {RestArgs(children) : children \in ChildLists}}

\* A call of the builder that user code is about to make.
Calls(Arguments) ==
    /\ Init!1 /\ Init!2 /\ Init!3 /\ Init!4 /\ Init!5 /\ Init!6 /\ Init!7
    /\ Init!8 /\ Init!9 /\ Init!10 /\ Init!11 /\ Init!12 /\ Init!13
    /\ obs \in {[NoObs EXCEPT !.op = "call", !.args = a] : a \in Arguments}
    /\ hist = NoHist

Called(fn) == [Fresh EXCEPT !.obs.op = fn, !.obs.args = obs.args]

CreateElement ==
    /\ obs.op = "call"
    /\ obs.args.fn = "createElement"
    /\ Becomes(createElement(Called("createElement"), obs.args.source,
                             obs.args.given, obs.args.props, obs.args.children))

\* buildComponentElement(componentInstance, children), as renderComponent
\* calls it with the array the render function returned.
BuildComponentElementCalls ==
    {[fn |-> "buildComponentElement", children |-> children] :
        children \in ChildLists}

BuildComponentElement ==
    /\ obs.op = "call"
    /\ obs.args.fn = "buildComponentElement"
    /\ LET s == Called("buildComponentElement") IN
       Becomes(Return(s, [type |-> "Component",
                          children |-> buildComponentElement(0, obs.args.children).children]))

\* ---- hasElementChanged
isTextElement(element) == element.type = "Text"

isTagElement(element) == element.type = "Tag"

isComponentElement(element) == element.type = "Component"

\* typeof of an argument that is an element or undefined.
NoNode == [type |-> Undefined]

TypeOf(element) == IF element = NoNode THEN "undefined" ELSE "object"

\* Mutant of hasElementChanged: two component elements are also compared by
\* the identity of their instances.
hasElementChanged_comparesInstances(old, new) ==
    IF TypeOf(old) # TypeOf(new) THEN TRUE
    ELSE IF old.type # new.type THEN TRUE
    ELSE IF isTextElement(old) /\ isTextElement(new) THEN old.value # new.value
    ELSE IF isTagElement(old) /\ isTagElement(new)
         THEN old.tag # new.tag \/ Get(old.props, "key") # Get(new.props, "key")
    ELSE IF isComponentElement(old) /\ isComponentElement(new)
         THEN \/ old.componentInstance # new.componentInstance
              \/ Get(old.props, "key") # Get(new.props, "key")
    ELSE FALSE

hasElementChanged(old, new) ==
    IF TypeOf(old) # TypeOf(new) THEN TRUE
    ELSE IF old.type # new.type THEN TRUE
    ELSE IF isTextElement(old) /\ isTextElement(new) THEN old.value # new.value
    ELSE IF isTagElement(old) /\ isTagElement(new)
         THEN old.tag # new.tag \/ Get(old.props, "key") # Get(new.props, "key")
    ELSE IF isComponentElement(old) /\ isComponentElement(new)
         THEN \/ old.componentInstance.Component # new.componentInstance.Component
              \/ Get(old.props, "key") # Get(new.props, "key")
    ELSE FALSE

\* The elements the patcher compares: of every variant, with and without a
\* key, with another prop, with and without a child, of both instances.
ElementProps ==
    {Spread(key, title) :
        key \in {EmptyObject} \cup {[k \in {"key"} |-> Scalar(v)] : v \in {"k1", "k2"}},
        title \in {EmptyObject, [k \in {"title"} |-> Scalar("a")]}}

ElementChildren == {<<>>, <<[type |-> "Empty"]>>}

Elements ==
    {[type |-> "Empty"]}
        \cup {[type |-> "Text", value |-> v] : v \in {"a", "b"}}
        \cup {[type |-> "Fragment", children |-> c] : c \in ElementChildren}
        \cup {[type |-> "Tag", tag |-> tag, props |-> props, children |-> c] :
                 tag \in Tags, props \in ElementProps, c \in ElementChildren}
        \cup {[type |-> "Component",
               componentInstance |-> [id |-> i, Component |-> C],
               props |-> props, children |-> c] :
                 i \in Ids, C \in RenderFunctions,
                 props \in ElementProps, c \in ElementChildren}

\* Both arguments undefined is a TypeError at `$old.type`: not a call the
\* patcher makes.
HasElementChangedCalls ==
    {[fn |-> "hasElementChanged", old |-> old, new |-> new] :
        old \in Elements \cup {NoNode}, new \in Elements}
        \cup {[fn |-> "hasElementChanged", old |-> old, new |-> NoNode] :
                 old \in Elements}

HasElementChanged ==
    /\ obs.op = "call"
    /\ obs.args.fn = "hasElementChanged"
    /\ Becomes(Return(Called("hasElementChanged"),
                      hasElementChanged(obs.args.old, obs.args.new)))

InitBuilder ==
    Calls({a \in CreateElementCalls : a.given \/ a.props = EmptyObject}
              \cup BuildComponentElementCalls
              \cup HasElementChangedCalls)

NextBuilder ==
    \/ CreateElement
    \/ BuildComponentElement
    \/ HasElementChanged

SpecBuilder == InitBuilder /\ [][NextBuilder]_vars

\* ---- C12
\* C12: for every call of the builder with a render function as source, the
\* props of the new instance are the passed props plus the normalized children
\* prop: nothing is added when there are no flattened children, the single
\* child itself is the children prop when there is exactly one, whatever its
\* value (0, the empty string, false and null included), and the sequence of
\* the children is when there are two or more.
C12_ChildrenProp ==
    obs.op = "createElement" /\ obs.args.source \in RenderFunctions =>
        LET children == flat(obs.args.children)
            passed == obs.args.props
            props == obs.returned.props
        IN  /\ Len(children) = 0 => props = passed
            /\ Len(children) >= 1 =>
                   /\ DOMAIN props = DOMAIN passed \cup {"children"}
                   /\ \A k \in DOMAIN passed \ {"children"} : props[k] = passed[k]
            /\ Len(children) = 1 => props["children"] = Scalar(children[1])
            /\ Len(children) >= 2 => props["children"] = Array(children)

\* ---- C13
\* The list of children a call of the builder hands to dropEmptyTail:
\* createElement passes its flattened children for a tag and a fragment and an
\* empty list for the element of a new instance.
ListGiven ==
    IF obs.op = "buildComponentElement" THEN obs.args.children
    ELSE IF obs.args.source \in RenderFunctions THEN <<>>
    ELSE flat(obs.args.children)

IsPlaceholder(v) == v \in {"false", "null", Undefined}

\* The position of the last child that is no placeholder, 0 without one.
LastChild(q) ==
    IF \A k \in DOMAIN q : IsPlaceholder(q[k]) THEN 0
    ELSE CHOOSE k \in DOMAIN q :
             /\ ~IsPlaceholder(q[k])
             /\ \A j \in DOMAIN q : j > k => IsPlaceholder(q[j])

\* The children of the element end with the last child that is no
\* placeholder; before it every placeholder is an Empty element at its
\* position and every other child an element of its value.
TailDropped(given, built) ==
    /\ Len(built) = LastChild(given)
    /\ \A k \in DOMAIN built :
           IF IsPlaceholder(given[k]) THEN built[k].type = "Empty"
           ELSE built[k].type # "Empty" /\ built[k].value = given[k]

OneEmpty(built) == Len(built) = 1 /\ built[1].type = "Empty"

BuilderReturned == obs.op \in {"createElement", "buildComponentElement"}

\* C13: for every children list given to the builder, of a tag, a fragment
\* or a component element, the trailing placeholders are dropped, the
\* placeholders before the last child that is no placeholder are kept as Empty
\* elements at their position, and a list without such a child (the empty list
\* included) becomes exactly one Empty element.
C13_EmptyListCollapses ==
    BuilderReturned =>
        IF LastChild(ListGiven) > 0
        THEN TailDropped(ListGiven, obs.returned.children)
        ELSE OneEmpty(obs.returned.children)

\* C13, as the code has it: a list of one or more placeholders becomes one
\* Empty element under a fragment or a component element and no element under
\* a tag; the empty list stays empty under all three.
C13_DropEmptyTail ==
    BuilderReturned =>
        IF LastChild(ListGiven) > 0
        THEN TailDropped(ListGiven, obs.returned.children)
        ELSE IF ListGiven = <<>> \/ obs.returned.type = "Tag"
             THEN obs.returned.children = <<>>
             ELSE OneEmpty(obs.returned.children)

\* A fragment of three children: a placeholder before a text and one after.
C13_Witness ==
    /\ obs.op = "createElement"
    /\ obs.returned.type = "Fragment"
    /\ Len(ListGiven) = 3
    /\ IsPlaceholder(ListGiven[1]) /\ ~IsPlaceholder(ListGiven[2])
    /\ IsPlaceholder(ListGiven[3])
    /\ Len(obs.returned.children) = 2

\* ---- C14
KeyOf(element) == Get(element.props, "key")

\* C14: hasElementChanged(old, new) of two Component elements is true iff
\* the render functions of their instances differ or the key values of their
\* props differ, whatever their other props, their children and their
\* instances are; of two Tag elements iff the tag or the key differs; of two
\* Text elements iff the values differ; of two elements of different variants
\* it is true.
C14_HasElementChanged ==
    obs.op = "hasElementChanged" /\ obs.args.old # NoNode /\ obs.args.new # NoNode =>
        LET old == obs.args.old
            new == obs.args.new
        IN  /\ old.type # new.type => obs.returned
            /\ old.type = "Component" /\ new.type = "Component" =>
                   (obs.returned <=>
                        \/ old.componentInstance.Component # new.componentInstance.Component
                        \/ KeyOf(old) # KeyOf(new))
            /\ old.type = "Tag" /\ new.type = "Tag" =>
                   (obs.returned <=> old.tag # new.tag \/ KeyOf(old) # KeyOf(new))
            /\ old.type = "Text" /\ new.type = "Text" =>
                   (obs.returned <=> old.value # new.value)

\* Two component elements of one render function and one key that differ in
\* another prop, in their children and in their instance.
C14_Witness ==
    /\ obs.op = "hasElementChanged"
    /\ obs.args.old.type = "Component" /\ obs.args.new.type = "Component"
    /\ obs.args.old.componentInstance.id # obs.args.new.componentInstance.id
    /\ obs.args.old.children # obs.args.new.children
    /\ DOMAIN obs.args.old.props = {"key"}
    /\ DOMAIN obs.args.new.props = {"key", "title"}
    /\ ~obs.returned

====
